---- MODULE Spec2Model ----
(***************************************************************************)
(* A state-machine model of src/train_multi.py: main() (argument and       *)
(* configuration loading, the num_gpu gate, data loaders, model            *)
(* construction or restoration, optimizer set-up) and train() (the epoch   *)
(* loop, the training-batch loop, the validation loop, the average-loss    *)
(* log line and the per-epoch checkpoint).  One action per statement group *)
(* of the script; a raised exception moves the run to pc = "raised" and    *)
(* sys.exit() to pc = "exited".  The file system survives a run, so a      *)
(* later run of main can load what an earlier run of train has saved.      *)
(***************************************************************************)
EXTENDS Integers, Sequences, FiniteSets, TLC

\* ---------------------------------------------------------------- bounds
MaxEpoches == 2     \* config.training.epoches ranges over 0..MaxEpoches
MaxTrain == 2       \* len(training_data) ranges over 0..MaxTrain
MaxDev == 2         \* len(validation_data) ranges over 0..MaxDev
MaxLoss == 2        \* loss.item() of a validation batch ranges over 1..MaxLoss
MaxGpu == 2         \* num_gpu, len(gpu_ids), device_count range up to MaxGpu
MaxRuns == 2        \* runs of main() over one file system
MaxDModel == 2      \* config.model (the model settings) ranges over 1..MaxDModel
ShowInterval == 1   \* config.training.show_interval
PriorEpoch == 12    \* epoch field of the checkpoint found on disk at the start

\* ------------------------------------------------------- values and names
Unbound == -1       \* a local variable of train() that is not assigned yet

NoFile == <<>>      \* opt.load_model is None

Fields == {"settings", "multi_gpu", "model", "epoch", "global_step"}

Digit == <<"0", "1", "2", "3", "4", "5", "6", "7", "8", "9">>

\* str(n) for a non-negative int: its decimal digits
RECURSIVE Str(_)
Str(n) == IF n < 10 THEN <<Digit[n + 1]>>
          ELSE Str(n \div 10) \o <<Digit[(n % 10) + 1]>>

\* a name without the epoch: every epoch of a run writes the same file
ModelNameNoEpoch(save_model, e) == save_model \o <<".chkpt">>

\* config.training.save_model + '.epoch%s.chkpt' % str(epoch)
ModelName(save_model, e) == save_model \o <<".epoch">> \o Str(e) \o <<".chkpt">>

SaveModel == <<"exp/", "model">>

\* the parameters of a Transformer: their names, and tensors of a shape fixed
\* by the settings the model was constructed from
ParamNames == {<<"encoder">>, <<"decoder">>}

Transformer(settings) ==
    [settings |-> settings,
     params   |-> [k \in ParamNames |-> [shape |-> settings, value |-> 0]],
     training |-> TRUE,
     parallel |-> FALSE]

NoModel ==
    [settings |-> 0,
     params   |-> [k \in {} |-> [shape |-> 0, value |-> 0]],
     training |-> TRUE,
     parallel |-> FALSE]

\* nn.DataParallel(model): the wrapped model is the attribute "module"
DataParallel(m) == [m EXCEPT !.parallel = TRUE]

\* model.state_dict(): a DataParallel model prefixes every key with "module."
StateDict(m) ==
    IF m.parallel
    THEN [k \in {<<"module.">> \o n : n \in DOMAIN m.params} |-> m.params[Tail(k)]]
    ELSE m.params

\* load_multi_gpu_model's key rewrite: the "module." prefix is cut off every key
StripModule(sd) ==
    [n \in {Tail(k) : k \in DOMAIN sd} |-> sd[CHOOSE k \in DOMAIN sd : Tail(k) = n]]

\* load_state_dict accepts a state dict with the model's keys and shapes
Loadable(m, sd) ==
    /\ DOMAIN sd = DOMAIN m.params
    /\ \A k \in DOMAIN sd : sd[k].shape = m.params[k].shape

\* ScheduledOptim(adam, d_model, n_warmup_steps)
ScheduledOptim == [current_step |-> 0, grad |-> "none"]

\* the weights after one optimizer update
Updated(params) == [k \in DOMAIN params |-> [params[k] EXCEPT !.value = @ + 1]]

NoCheckpoint ==
    [settings |-> 0, multi_gpu |-> FALSE,
     model |-> [k \in {} |-> [shape |-> 0, value |-> 0]],
     epoch |-> Unbound, global_step |-> Unbound]

NoConfig ==
    [num_gpu |-> 0, epoches |-> 0, dev_on_training |-> FALSE, show_interval |-> 1,
     model |-> 0, save_model |-> <<>>]

NoLoaders == [built |-> FALSE, train |-> 0, dev |-> 0]

NoLog == [msg |-> "", epoch |-> 0, num |-> 0, den |-> 1]

\* the checkpoint with the values of epoch and global_step swapped
CheckpointSwapped(cfg, mdl, ep, opt) ==
    [settings    |-> cfg.model,
     multi_gpu   |-> TRUE,
     model       |-> StateDict(mdl),
     epoch       |-> opt.current_step,
     global_step |-> ep]

\* lines 67-74: the mapping torch.save is given
Checkpoint(cfg, mdl, ep, opt) ==
    [settings    |-> cfg.model,
     multi_gpu   |-> TRUE,
     model       |-> StateDict(mdl),
     epoch       |-> ep,
     global_step |-> opt.current_step]

\* the checkpoint another training script of the repository left on disk
PriorCheckpoint(multi) ==
    LET m == Transformer(1) IN
    [settings    |-> 1,
     multi_gpu   |-> multi,
     model       |-> StateDict(IF multi THEN DataParallel(m) ELSE m),
     epoch       |-> PriorEpoch,
     global_step |-> PriorEpoch + 1]

PriorName == <<"exp/", "prior">> \o <<".epoch">> \o Str(PriorEpoch) \o <<".chkpt">>

\* ---------------------------------------------------------------- state
VARIABLES
    run,            \* the number of runs of main() started so far
    pc,             \* the position of the current run
    error,          \* the exception that ended the run, or "none"
    files,          \* the file system: file name -> checkpoint
    load_model,     \* opt.load_model
    config,         \* the configuration read from the YAML file
    loaders,        \* training_data and validation_data (their lengths)
    checkpoint,     \* main's local: the checkpoint torch.load returned
    model,          \* the model (main's model / transformer, train's model)
    optimizer,      \* the ScheduledOptim: current_step and the gradient state
    epoch,          \* train's loop variable
    train_i,        \* training batches the current enumerate() has yielded
    dev_i,          \* validation batches the current enumerate() has yielded
    step,           \* train's local: the index of the last validation batch
    dev_step,       \* train's local
    total_loss,     \* train's local
    last_log,       \* the last line given to the logger
    batch_ops,      \* history: the calls made for the current training batch
    events,         \* history: the batches this run has processed, in order
    written,        \* history: the torch.save calls of this run, in order
    dev_sum,        \* history: the sum of loss.item() over this epoch's validation
    dev_count       \* history: the validation batches processed in this epoch

vars == <<run, pc, error, files, load_model, config, loaders, checkpoint, model,
          optimizer, epoch, train_i, dev_i, step, dev_step, total_loss, last_log,
          batch_ops, events, written, dev_sum, dev_count>>

mainVars == <<load_model, config, loaders, checkpoint>>
loopVars == <<epoch, train_i, dev_i, step, dev_step, total_loss>>
histVars == <<batch_ops, events, written, dev_sum, dev_count>>

Fresh ==
    /\ pc = "start"
    /\ error = "none"
    /\ load_model = NoFile
    /\ config = NoConfig
    /\ loaders = NoLoaders
    /\ checkpoint = NoCheckpoint
    /\ model = NoModel
    /\ optimizer = ScheduledOptim
    /\ epoch = Unbound
    /\ train_i = 0
    /\ dev_i = 0
    /\ step = Unbound
    /\ dev_step = Unbound
    /\ total_loss = Unbound
    /\ last_log = NoLog
    /\ batch_ops = <<>>
    /\ events = <<>>
    /\ written = <<>>
    /\ dev_sum = 0
    /\ dev_count = 0

Init ==
    /\ run = 1
    /\ \E multi \in BOOLEAN : files = [n \in {PriorName} |-> PriorCheckpoint(multi)]
    /\ Fresh

Raise(e) == pc' = "raised" /\ error' = e

\* ------------------------------------------------------------------ main
\* lines 81-99: parse the arguments, read the configuration, seed, log the seed
LoadConfig ==
    /\ pc = "start"
    /\ \E f \in {NoFile} \cup DOMAIN files : load_model' = f
    /\ \E n \in 0..MaxGpu, ep \in 0..MaxEpoches, dev \in BOOLEAN, d \in 1..MaxDModel :
          config' = [num_gpu |-> n, epoches |-> ep, dev_on_training |-> dev,
                     show_interval |-> ShowInterval, model |-> d,
                     save_model |-> SaveModel]
    /\ last_log' = [NoLog EXCEPT !.msg = "Set random seed"]
    /\ pc' = "check_gpu"
    /\ UNCHANGED <<run, error, files, loaders, checkpoint, model, optimizer,
                   loopVars, histVars>>

\* line 101: multi_gpu = True if config.training.num_gpu >= 1 else False
MultiGpu(cfg) == cfg.num_gpu >= 1

\* lines 101-108: the num_gpu gate and the two assertions on the device ids
\* (devices_id stands for len(devices_id), the ids config.training.gpu_ids lists)
CheckGpu ==
    /\ pc = "check_gpu"
    /\ IF ~MultiGpu(config)
       THEN /\ last_log' = [NoLog EXCEPT
                              !.msg = "Please set num_gpu larger than 1 in config file!"]
            /\ pc' = "exited"
            /\ error' = error
       ELSE \E devices_id \in 1..MaxGpu, device_count \in 0..MaxGpu :
              /\ last_log' = last_log
              /\ IF devices_id = config.num_gpu /\ devices_id <= device_count
                 THEN pc' = "build_loaders" /\ error' = error
                 ELSE Raise("AssertionError")
    /\ UNCHANGED <<run, files, mainVars, model, optimizer, loopVars, histVars>>

\* lines 110-113: build_data_loader for the train and the dev split
BuildLoaders ==
    /\ pc = "build_loaders"
    /\ \E nt \in 0..MaxTrain, nd \in 0..MaxDev :
          loaders' = [built |-> TRUE, train |-> nt, dev |-> nd]
    /\ pc' = "build_model"
    /\ UNCHANGED <<run, error, files, load_model, config, checkpoint, model,
                   optimizer, loopVars, last_log, histVars>>

\* line 118: model_config = checkpoint['settings']
ModelConfig(cfg, ckpt) == ckpt.settings

\* lines 116-124: restore the model from the checkpoint opt.load_model names
LoadModel ==
    /\ pc = "build_model"
    /\ load_model # NoFile
    /\ LET ckpt == files[load_model]
           m    == Transformer(ModelConfig(config, ckpt))
           sd   == StripModule(ckpt.model)
       IN /\ checkpoint' = ckpt
          /\ IF ckpt.multi_gpu
             THEN IF Loadable(m, sd)
                  THEN /\ model' = [m EXCEPT !.params = sd]
                       /\ last_log' = [NoLog EXCEPT !.msg = "Loaded model"]
                       /\ pc' = "count_params"
                       /\ error' = error
                  ELSE /\ model' = m
                       /\ last_log' = last_log
                       /\ Raise("RuntimeError")
             ELSE \* load_single_gpu_model is not a name of the module
                  /\ model' = m
                  /\ last_log' = last_log
                  /\ Raise("NameError")
    /\ UNCHANGED <<run, files, load_model, config, loaders, optimizer, loopVars,
                   histVars>>

\* lines 126-127: a new model from the configuration
NewModel ==
    /\ pc = "build_model"
    /\ load_model = NoFile
    /\ model' = Transformer(config.model)
    /\ pc' = "count_params"
    /\ UNCHANGED <<run, error, files, mainVars, optimizer, loopVars, last_log,
                   histVars>>

\* lines 129-132: count_parameters and the three log lines
CountParams ==
    /\ pc = "count_params"
    /\ last_log' = [NoLog EXCEPT !.msg = "# the number of parameters"]
    /\ pc' = "setup"
    /\ UNCHANGED <<run, error, files, mainVars, model, optimizer, loopVars,
                   histVars>>

\* lines 134-149: DataParallel, the optimizer, the loss function, the visualizer
Setup ==
    /\ pc = "setup"
    /\ model' = DataParallel(model)
    /\ optimizer' = ScheduledOptim
    /\ last_log' = [NoLog EXCEPT !.msg = "Created cross entropy loss function"]
    /\ pc' = "call_train"
    /\ UNCHANGED <<run, error, files, mainVars, loopVars, histVars>>

\* lines 151, 18-19: train(...) is called; dev_step = 0
CallTrain ==
    /\ pc = "call_train"
    /\ dev_step' = 0
    /\ pc' = "epoch_loop"
    /\ UNCHANGED <<run, error, files, mainVars, model, optimizer, epoch, train_i,
                   dev_i, step, total_loss, last_log, histVars>>

\* ----------------------------------------------------------------- train
\* an epoch loop that resumes after the epoch of the loaded checkpoint
FirstEpochResume(ckpt) == IF ckpt.epoch = Unbound THEN 0 ELSE ckpt.epoch + 1

\* line 20: range(config.training.epoches) starts at 0
FirstEpoch(ckpt) == 0

\* line 20: for epoch in range(config.training.epoches); the loop's end is
\* the end of train() and of main()
ForEpoch ==
    /\ pc = "epoch_loop"
    /\ LET next == IF epoch = Unbound THEN FirstEpoch(checkpoint) ELSE epoch + 1
       IN IF next < config.epoches
          THEN /\ epoch' = next
               /\ dev_sum' = 0
               /\ dev_count' = 0
               /\ pc' = "model_train"
          ELSE /\ epoch' = epoch
               /\ UNCHANGED <<dev_sum, dev_count>>
               /\ pc' = "done"
    /\ UNCHANGED <<run, error, files, mainVars, model, optimizer, train_i, dev_i,
                   step, dev_step, total_loss, last_log, batch_ops, events, written>>

\* the epoch starts without a call of model.train()
ModelTrainMissing ==
    /\ pc = "model_train"
    /\ train_i' = 0
    /\ pc' = "train_loop"
    /\ UNCHANGED <<run, error, files, mainVars, model, optimizer, epoch, dev_i, step,
                   dev_step, total_loss, last_log, histVars>>

\* lines 21-22: model.train(); enumerate(training_data) starts
ModelTrain ==
    /\ pc = "model_train"
    /\ model' = [model EXCEPT !.training = TRUE]
    /\ train_i' = 0
    /\ pc' = "train_loop"
    /\ UNCHANGED <<run, error, files, mainVars, optimizer, epoch, dev_i, step,
                   dev_step, total_loss, last_log, histVars>>

\* lines 22-27: the next training batch, or the end of the training loop
ForTrainBatch ==
    /\ pc = "train_loop"
    /\ IF train_i < loaders.train
       THEN /\ train_i' = train_i + 1
            /\ batch_ops' = <<>>
            /\ pc' = "zero_grad"
       ELSE /\ train_i' = train_i
            /\ batch_ops' = batch_ops
            /\ pc' = "dev_check"
    /\ UNCHANGED <<run, error, files, mainVars, model, optimizer, epoch, dev_i, step,
                   dev_step, total_loss, last_log, events, written, dev_sum, dev_count>>

\* the gradients are not cleared before the forward pass
ZeroGradMissing ==
    /\ pc = "zero_grad"
    /\ pc' = "forward"
    /\ UNCHANGED <<run, error, files, mainVars, model, optimizer, loopVars, last_log,
                   histVars>>

\* line 28: optimizer.zero_grad()
ZeroGrad ==
    /\ pc = "zero_grad"
    /\ optimizer' = [optimizer EXCEPT !.grad = "zero"]
    /\ batch_ops' = Append(batch_ops, "zero_grad")
    /\ pc' = "forward"
    /\ UNCHANGED <<run, error, files, mainVars, model, loopVars, last_log, events,
                   written, dev_sum, dev_count>>

\* line 29: logits, _ = model(inputs, inputs_pos, targets, targets_pos)
Forward ==
    /\ pc = "forward"
    /\ batch_ops' = Append(batch_ops, "forward")
    /\ pc' = "loss"
    /\ UNCHANGED <<run, error, files, mainVars, model, optimizer, loopVars, last_log,
                   events, written, dev_sum, dev_count>>

\* line 30: loss = crit(...)
Loss ==
    /\ pc = "loss"
    /\ batch_ops' = Append(batch_ops, "loss")
    /\ pc' = "backward"
    /\ UNCHANGED <<run, error, files, mainVars, model, optimizer, loopVars, last_log,
                   events, written, dev_sum, dev_count>>

\* line 31: loss.backward() adds the batch's gradient to the stored gradient
Backward ==
    /\ pc = "backward"
    /\ optimizer' = [optimizer EXCEPT
                       !.grad = IF @ = "zero" THEN "batch" ELSE "accumulated"]
    /\ batch_ops' = Append(batch_ops, "backward")
    /\ pc' = "step"
    /\ UNCHANGED <<run, error, files, mainVars, model, loopVars, last_log, events,
                   written, dev_sum, dev_count>>

\* lines 32-40: optimizer.step() updates the weights and counts the step; the
\* visualizer and the logger are given the step's loss
OptimStep ==
    /\ pc = "step"
    /\ optimizer' = [optimizer EXCEPT !.current_step = @ + 1]
    /\ model' = [model EXCEPT !.params = Updated(@)]
    /\ batch_ops' = Append(batch_ops, "step")
    /\ events' = Append(events, [kind |-> "train", epoch |-> epoch,
                                 training |-> model.training,
                                 step |-> optimizer.current_step + 1])
    /\ last_log' = IF (optimizer.current_step + 1) % config.show_interval = 0
                   THEN [NoLog EXCEPT !.msg = "-Training-Epoch", !.epoch = epoch]
                   ELSE last_log
    /\ pc' = "train_loop"
    /\ UNCHANGED <<run, error, files, mainVars, loopVars, written, dev_sum, dev_count>>

\* line 42: if config.training.dev_on_training
DevCheck ==
    /\ pc = "dev_check"
    /\ pc' = IF config.dev_on_training THEN "model_eval" ELSE "save"
    /\ UNCHANGED <<run, error, files, mainVars, model, optimizer, loopVars, last_log,
                   histVars>>

\* lines 43-45: model.eval(); total_loss = 0; enumerate(validation_data) starts
ModelEval ==
    /\ pc = "model_eval"
    /\ model' = [model EXCEPT !.training = FALSE]
    /\ total_loss' = 0
    /\ dev_i' = 0
    /\ pc' = "dev_loop"
    /\ UNCHANGED <<run, error, files, mainVars, optimizer, epoch, train_i, step,
                   dev_step, last_log, histVars>>

\* lines 45-51: the next validation batch (step is its index), or the loop's end
ForDevBatch ==
    /\ pc = "dev_loop"
    /\ IF dev_i < loaders.dev
       THEN /\ step' = dev_i
            /\ dev_i' = dev_i + 1
            /\ dev_step' = dev_step + 1
            /\ pc' = "dev_forward"
       ELSE /\ UNCHANGED <<step, dev_i, dev_step>>
            /\ pc' = "log_average"
    /\ UNCHANGED <<run, error, files, mainVars, model, optimizer, epoch, train_i,
                   total_loss, last_log, histVars>>

\* line 53: the forward pass of a validation batch
DevForward ==
    /\ pc = "dev_forward"
    /\ pc' = "dev_loss"
    /\ UNCHANGED <<run, error, files, mainVars, model, optimizer, loopVars, last_log,
                   histVars>>

\* lines 54-61: the batch's loss is added to total_loss
DevLoss ==
    /\ pc = "dev_loss"
    /\ \E item \in 1..MaxLoss :
          /\ total_loss' = total_loss + item
          /\ dev_sum' = dev_sum + item
          /\ dev_count' = dev_count + 1
    /\ events' = Append(events, [kind |-> "dev", epoch |-> epoch,
                                 training |-> model.training,
                                 step |-> optimizer.current_step])
    /\ last_log' = IF step % config.show_interval = 0
                   THEN [NoLog EXCEPT !.msg = "-Validation-Step"]
                   ELSE last_log
    /\ pc' = "dev_loop"
    /\ UNCHANGED <<run, error, files, mainVars, model, optimizer, epoch, train_i,
                   dev_i, step, dev_step, batch_ops, written>>

\* lines 63-64: the log line with total_loss/step, the quotient kept as the pair
\* (numerator, denominator)
LogAverage ==
    /\ pc = "log_average"
    /\ IF step = Unbound
       THEN last_log' = last_log /\ Raise("UnboundLocalError")
       ELSE IF step = 0
       THEN last_log' = last_log /\ Raise("ZeroDivisionError")
       ELSE /\ last_log' = [msg |-> "-Validation-Epoch, AverageCrossEntropyLoss",
                            epoch |-> epoch, num |-> total_loss, den |-> step]
            /\ pc' = "save"
            /\ error' = error
    /\ UNCHANGED <<run, files, mainVars, model, optimizer, loopVars, histVars>>

\* lines 66-76: the checkpoint of the epoch is written
SaveCheckpoint ==
    /\ pc = "save"
    /\ LET ckpt == Checkpoint(config, model, epoch, optimizer)
           model_name == ModelName(config.save_model, epoch)
       IN /\ files' = [n \in DOMAIN files \cup {model_name} |->
                         IF n = model_name THEN ckpt ELSE files[n]]
          /\ written' = Append(written, [name |-> model_name, checkpoint |-> ckpt,
                                         epoch |-> epoch, pos |-> Len(events)])
    /\ pc' = "epoch_loop"
    /\ UNCHANGED <<run, error, mainVars, model, optimizer, loopVars, last_log,
                   batch_ops, events, dev_sum, dev_count>>

\* lines 154-155: the script is run again, over the files the earlier runs left
Rerun ==
    /\ pc \in {"done", "exited", "raised"}
    /\ run < MaxRuns
    /\ run' = run + 1
    /\ files' = files
    /\ pc' = "start"
    /\ error' = "none"
    /\ load_model' = NoFile
    /\ config' = NoConfig
    /\ loaders' = NoLoaders
    /\ checkpoint' = NoCheckpoint
    /\ model' = NoModel
    /\ optimizer' = ScheduledOptim
    /\ epoch' = Unbound
    /\ train_i' = 0
    /\ dev_i' = 0
    /\ step' = Unbound
    /\ dev_step' = Unbound
    /\ total_loss' = Unbound
    /\ last_log' = NoLog
    /\ batch_ops' = <<>>
    /\ events' = <<>>
    /\ written' = <<>>
    /\ dev_sum' = 0
    /\ dev_count' = 0

\* one run of main()
Next ==
    \/ LoadConfig \/ CheckGpu \/ BuildLoaders \/ LoadModel \/ NewModel
    \/ CountParams \/ Setup \/ CallTrain
    \/ ForEpoch \/ ModelTrain \/ ForTrainBatch
    \/ ZeroGrad \/ Forward \/ Loss \/ Backward \/ OptimStep
    \/ DevCheck \/ ModelEval \/ ForDevBatch \/ DevForward \/ DevLoss
    \/ LogAverage \/ SaveCheckpoint

Spec == Init /\ [][Next]_vars

\* runs of main() one after the other, each over the files the earlier ones left
NextReruns == Next \/ Rerun

SpecReruns == Init /\ [][NextReruns]_vars

\* ---------------------------------------------------------------- claims
\* the events among the first n of kind k and epoch e
EventsOf(n, k, e) == {j \in 1..n : events[j].kind = k /\ events[j].epoch = e}

\* the file name the script is documented to give the checkpoint of epoch e
ExpectedName(e) == SaveModel \o <<".epoch", Digit[e + 1], ".chkpt">>

\* optimizer.current_step after the last training batch among the first n events
StepAfter(n) ==
    LET done == {j \in 1..n : events[j].kind = "train"}
    IN IF done = {} THEN 0
       ELSE events[CHOOSE j \in done : \A i \in done : i <= j].step

\* C1: the checkpoint of epoch e is written after all training batches and (with
\* dev_on_training) all validation batches of epoch e, and before any batch of a
\* later epoch; its file name is save_model + '.epoch<e>.chkpt'; no two
\* checkpoints of a run share a file name or an epoch.
C1_CheckpointOrder ==
    /\ \A i \in 1..Len(written) :
         LET w == written[i] IN
         /\ w.epoch \in 0..(config.epoches - 1)
         /\ Cardinality(EventsOf(w.pos, "train", w.epoch)) = loaders.train
         /\ config.dev_on_training =>
              Cardinality(EventsOf(w.pos, "dev", w.epoch)) = loaders.dev
         /\ \A j \in 1..Len(events) :
              /\ events[j].epoch <= w.epoch => j <= w.pos
              /\ events[j].epoch > w.epoch => j > w.pos
         /\ w.name = ExpectedName(w.epoch)
    /\ \A i, j \in 1..Len(written) :
         i # j => written[i].name # written[j].name /\ written[i].epoch # written[j].epoch

C1_Witness ==
    /\ Len(written) = 2
    /\ config.dev_on_training
    /\ loaders.train = 2
    /\ loaders.dev = 2
    /\ pc = "done"

\* C2: every checkpoint written has exactly the fields settings, multi_gpu,
\* model, epoch and global_step; settings is config.model, multi_gpu is True,
\* epoch is the epoch of the file name, and global_step is the optimizer's
\* current_step as the epoch's last training batch left it.
C2_CheckpointFields ==
    \A i \in 1..Len(written) :
        LET w == written[i]
            c == w.checkpoint
        IN /\ DOMAIN c = Fields
           /\ c.settings = config.model
           /\ c.multi_gpu = TRUE
           /\ c.epoch = w.epoch
           /\ w.name = ExpectedName(c.epoch)
           /\ c.global_step = StepAfter(w.pos)
           /\ files[w.name] = c

C2_Witness ==
    /\ Len(written) = 2
    /\ written[2].checkpoint.epoch = 1
    /\ written[2].checkpoint.global_step = 4
    /\ written[1].checkpoint.global_step = 2
    /\ dev_step = 4

\* C3: a checkpoint written by train is restored by a later run given
\* -load_model with that file: the model is built from the checkpoint's settings,
\* the checkpoint's weights are loaded, and the load raises nothing.
WrittenByTrain(f) ==
    /\ Len(f) > Len(SaveModel)
    /\ SubSeq(f, 1, Len(SaveModel)) = SaveModel

C3_RoundTrip ==
    (load_model # NoFile /\ WrittenByTrain(load_model) /\ checkpoint # NoCheckpoint) =>
        /\ error \notin {"RuntimeError", "NameError"}
        /\ model.settings = checkpoint.settings
        /\ pc = "count_params" => model.params = StripModule(checkpoint.model)

\* C4: main builds the data loaders only when num_gpu is larger than 1.
C4_NumGpuGate == loaders.built => config.num_gpu > 1

\* C5: given -load_model, main restores the model whether the checkpoint's
\* multi_gpu field is true or false, and goes on to the optimizer and training.
C5_LoadEitherKind ==
    checkpoint # NoCheckpoint => (pc # "raised" \/ error \notin {"NameError", "RuntimeError"})

\* C6: each training batch is zero_grad, forward, loss, backward, step in that
\* order; the optimizer steps once per training batch and never in validation;
\* the checkpoint of epoch e stores global_step = (e+1) * training batches.
BatchOrder == <<"zero_grad", "forward", "loss", "backward", "step">>

C6_StepPerBatch ==
    /\ batch_ops = SubSeq(BatchOrder, 1, Len(batch_ops))
    /\ (pc = "train_loop" /\ train_i > 0) => batch_ops = BatchOrder
    /\ pc = "step" => optimizer.grad = "batch"
    /\ \A j \in 1..Len(events) :
         events[j].step = (IF j = 1 THEN 0 ELSE events[j - 1].step)
                          + (IF events[j].kind = "train" THEN 1 ELSE 0)
    /\ optimizer.current_step = StepAfter(Len(events))
    /\ \A i \in 1..Len(written) :
         written[i].checkpoint.global_step = (written[i].epoch + 1) * loaders.train

C6_Witness ==
    /\ Len(written) = 2
    /\ loaders.train = 2
    /\ loaders.dev = 2
    /\ config.dev_on_training
    /\ written[2].checkpoint.global_step = 4

\* C7: train terminates normally, with a checkpoint written for each epoch
\* 0..epoches-1 (stated on the runs that have stopped: train, once entered,
\* stops only by returning, and then every epoch's checkpoint is written).
C7_TrainTerminates ==
    (dev_step # Unbound /\ pc \in {"done", "raised", "exited"}) =>
        /\ pc = "done"
        /\ {written[i].epoch : i \in 1..Len(written)} = 0..(config.epoches - 1)

\* C8: the value logged as AverageCrossEntropyLoss is the sum of the epoch's
\* validation losses divided by the number of validation batches of the epoch.
C8_AverageLoss ==
    (pc = "save" /\ config.dev_on_training) =>
        /\ last_log.msg = "-Validation-Epoch, AverageCrossEntropyLoss"
        /\ last_log.epoch = epoch
        /\ last_log.num * dev_count = dev_sum * last_log.den

\* C9: the model is in training mode whenever a training batch is processed
\* and in evaluation mode whenever a validation batch is processed.
C9_ModeInvariant ==
    /\ pc \in {"zero_grad", "forward", "loss", "backward", "step"} => model.training
    /\ pc \in {"dev_forward", "dev_loss"} => ~model.training
    /\ \A j \in 1..Len(events) : events[j].training = (events[j].kind = "train")

C9_Witness ==
    /\ pc = "forward"
    /\ epoch = 1
    /\ \E j \in 1..Len(events) : events[j].kind = "dev" /\ events[j].epoch = 0

\* C10: a run given -load_model reads neither epoch nor global_step of the
\* checkpoint: the epoch loop starts at 0, the i-th checkpoint written has epoch
\* i-1 and the name of epoch i-1, the step count starts at 0, and the run that
\* returns has written the epochs 0..epoches-1, as a run without -load_model.
C10_LoopStartsAtZero ==
    /\ \A i \in 1..Len(written) :
         /\ written[i].epoch = i - 1
         /\ written[i].checkpoint.epoch = i - 1
         /\ written[i].name = ExpectedName(i - 1)
    /\ \A j \in 1..Len(events) : events[j].epoch \in 0..(config.epoches - 1)
    /\ (Len(events) > 0 /\ events[1].kind = "train") => events[1].step = 1
    /\ pc = "done" => Len(written) = config.epoches

C10_Witness ==
    /\ load_model # NoFile
    /\ checkpoint.epoch = PriorEpoch
    /\ checkpoint.global_step > 0
    /\ pc = "done"
    /\ Len(written) = 2
    /\ written[1].checkpoint.epoch = 0
    /\ Len(events) > 0

====
